---------------------------- MODULE Spec2Model ----------------------------
(***************************************************************************)
(* Model of the semantic retrieval and tool-augmented chat subsystem of    *)
(* the MD-note application: the agent loop of ChatManager.sendMessage, the *)
(* tool registry AITools, the embedding index VectorStore, the note save   *)
(* path (saveCurrentNote / handleInput) and the graph edge construction of *)
(* renderGraph.                                                            *)
(*                                                                         *)
(* Three state machines share the module, each with its own specification: *)
(*   Spec / FairSpec  the agent turn and the tool registry                 *)
(*   SpecIndex        note editing, saving and embedding indexing          *)
(*   SpecGraph        the graph edge construction over bounded note sets   *)
(***************************************************************************)
EXTENDS Integers, Sequences, FiniteSets, TLC

VARIABLES
    \* ---- ChatManager (src/unnamed/part_003) ----
    pc,                   \* position of the running sendMessage call
    activeConversationId, \* ChatManager.activeConversationId (0 = null)
    conversations,        \* db.conversations: set of conversation ids
    chat_messages,        \* db.chat_messages in timestamp order
    history,              \* ChatManager.history
    messages,             \* working message list of the turn
    usedNotes,            \* ids of the notes put into the context
    promptKind,           \* which of the three system prompt texts was built
    turn,                 \* local counter of the agent loop
    toolCall,             \* parsed tool call awaiting execution
    finalResponse,        \* local finalResponse
    uiMessage,            \* text of the "thinking" bubble of the turn
    \* ---- observers of the running turn (not program state) ----
    chatCalls,            \* number of AIService.chat calls of the turn
    lastExec,             \* what the last AITools.execute call did
    lastReply,            \* <<r>>: the response r the agent loop received last
    turnConversationId,   \* the conversation the turn's user message was saved to
    turnStart,            \* chat_messages when sendMessage was called
    \* ---- notes (src/unnamed/part_000, part_003) ----
    now,                  \* Date.now()
    activeNoteId,         \* global activeNoteId (0 = null)
    notes,                \* global notes: the in-memory list of note objects
    db_notes,             \* db.notes: set of stored note records, keyed by id
    db_embeddings,        \* db.embeddings: set of records, keyed by noteId
    \* ---- graph view (src/graph.js) ----
    graphState,           \* "idle" or "rendered"
    graphEdges,           \* the values of edgeMap, in insertion order
    \* ---- note save path (src/unnamed/part_003, src/vector-store.js) ----
    savePc,               \* where the running saveCurrentNote call is suspended
    saveNoteId,           \* id of the note object that call holds
    indexPc,              \* where the running VectorStore.indexNote is suspended
    linkPc,               \* where the running autoLinkNote is suspended
    embedText,            \* text of the generateEmbedding request in flight
    saveTimeout,          \* the debounce timer of handleInput is pending
    indexOutcome,         \* how the last indexNote call ended (observer)
    \* ---- similarity search (src/vector-store.js) ----
    searchK,              \* k of the VectorStore.search call that resolved last
    searchScore,          \* cosine similarity of each stored record in that call
    searchResults,        \* what that call returned
    \* ---- AI connect (src/unnamed/part_003) ----
    connectPc             \* where the running triggerAIConnect is suspended

agentVars == <<pc, activeConversationId, conversations, chat_messages, history,
               messages, usedNotes, promptKind, turn, toolCall, finalResponse,
               uiMessage, chatCalls, lastExec, lastReply, turnConversationId, turnStart>>
noteVars == <<now, activeNoteId, notes, db_notes, db_embeddings>>
graphVars == <<graphState, graphEdges>>
indexVars == <<savePc, saveNoteId, indexPc, linkPc, embedText, saveTimeout, indexOutcome>>
searchVars == <<searchK, searchScore, searchResults>>
connectVars == <<connectPc>>
vars == <<agentVars, noteVars, graphVars, indexVars, searchVars, connectVars>>

----------------------------------------------------------------------------
(* Bounds *)
MaxTicks == 1        \* advances of Date.now() explored in one behaviour
MaxGraphNotes == 3   \* notes of the largest note set given to renderGraph
MaxGraphLinks == 2   \* wiki links plus AI links in such a note set
MaxRecords == 4       \* embedding records in the store of the search scenario
MaxBodyLen == 5      \* update_note appends only to bodies shorter than this
MaxConversations == 3   \* conversations are created while fewer ids are in use

(* Program constants *)
MAX_TURNS == 5
HISTORY_WINDOW == 10
RAG_K == 3
AUTO_LINK_K == 5
AUTO_LINK_MAX == 5
AUTO_LINK_MIN_BODY == 20
SIMILARITY_THRESHOLD == 30   \* 0.3, scores being counted in hundredths

----------------------------------------------------------------------------
(* Generic helpers *)

\* String.prototype.includes
Includes(s, t) ==
    \E i \in 1..(Len(s) - Len(t) + 1) : SubSeq(s, i, i + Len(t) - 1) = t

\* Array.prototype.slice(-n)
SliceLast(seq, n) ==
    IF Len(seq) <= n THEN seq ELSE SubSeq(seq, Len(seq) - n + 1, Len(seq))

\* Array.prototype.slice(0, n)
SliceFirst(seq, n) ==
    IF Len(seq) <= n THEN seq ELSE SubSeq(seq, 1, n)

Range(seq) == {seq[i] : i \in 1..Len(seq)}

----------------------------------------------------------------------------
(* NoteDAO over db.notes (primary key id) *)

\* NoteDAO.get: the stored record or NoNote (undefined)
NoNote == [id |-> 0, title |-> "", body |-> "", tags |-> <<>>, updatedAt |-> 0,
           wikiLinks |-> <<>>, aiLinks |-> <<>>]
HasNote(db, id) == \E n \in db : n.id = id
NoteDAO_get(db, id) == IF HasNote(db, id) THEN CHOOSE n \in db : n.id = id ELSE NoNote

\* NoteDAO.save: db.notes.put replaces the record with the same primary key
NoteDAO_save(db, note) == {n \in db : n.id # note.id} \cup {note}

----------------------------------------------------------------------------
(* AITools (src/tabs.js): the tool registry *)

\* names of AITools.definitions
Catalog == {"create_note", "update_note", "find_note_by_title", "search_notes",
            "get_active_note", "read_note", "list_folders"}

\* tool implementations whose parameter is destructured: calling them with
\* undefined raises a TypeError before the body runs
Destructuring == {"create_note", "update_note", "find_note_by_title",
                  "search_notes", "read_note"}

\* the names a model reply may ask for: the catalog, other own members of the
\* AITools object, a member inherited from Object.prototype, an unknown name
ToolNames == Catalog \cup {"definitions", "getSystemPromptAddon", "execute",
                           "toString", "delete_note"}

\* the value of the "arguments" member of a parsed reply (truthy): a plain
\* object or a non-empty string; Undefined is what execute passes on when it
\* is itself invoked as a tool
ArgObject == "[object Object]"
Undefined == "undefined"
ArgValues == {ArgObject, "list_folders", "create_note"}

\* what this[name] evaluates to on the AITools object
Member(name) ==
    CASE name \in Catalog -> "tool"
      [] name = "definitions" -> "array"
      [] name = "getSystemPromptAddon" -> "helper"
      [] name = "execute" -> "execute"
      [] name = "toString" -> "inherited"
      [] OTHER -> "absent"

\* result texts of execute
TOOL_NOT_FOUND == "Error: Tool not found."
TOOL_ERROR == "Error execution tool"
TOOL_RESULT == "tool result"
PROMPT_ADDON == "## AVAILABLE TOOLS"

\* this[name](args): the member is called; `raises` tells whether the
\* persistence layer under a tool implementation raises.
\* ran = the members whose body ran to completion or up to the raise.
RECURSIVE execute(_, _, _)
Invoke(name, args, raises) ==
    CASE Member(name) = "tool" ->
            IF args = Undefined /\ name \in Destructuring
            THEN [text |-> "TypeError", thrown |-> TRUE, ran |-> <<>>, ok |-> FALSE]
            ELSE IF raises
            THEN [text |-> "DexieError", thrown |-> TRUE, ran |-> <<name>>, ok |-> FALSE]
            ELSE [text |-> TOOL_RESULT, thrown |-> FALSE, ran |-> <<name>>, ok |-> TRUE]
      [] Member(name) = "array" ->
            [text |-> "TypeError", thrown |-> TRUE, ran |-> <<>>, ok |-> FALSE]
      [] Member(name) = "helper" ->
            [text |-> PROMPT_ADDON, thrown |-> FALSE, ran |-> <<name>>, ok |-> TRUE]
      [] Member(name) = "execute" ->
            LET r == execute(args, Undefined, raises)
            IN  [r EXCEPT !.ran = <<name>> \o r.ran]
      [] Member(name) = "inherited" ->
            [text |-> ArgObject, thrown |-> FALSE, ran |-> <<name>>, ok |-> TRUE]

\* execute without its try/catch
execute_nocatch(name, args, raises) ==
    IF Member(name) # "absent"
    THEN Invoke(name, args, raises)
    ELSE [text |-> TOOL_NOT_FOUND, thrown |-> FALSE, ran |-> <<>>, ok |-> FALSE]

\* AITools.execute(name, args)
execute(name, args, raises) ==
    IF Member(name) # "absent"
    THEN LET r == Invoke(name, args, raises)
         IN  IF r.thrown
             THEN [text |-> TOOL_ERROR, thrown |-> FALSE, ran |-> r.ran, ok |-> FALSE]
             ELSE r
    ELSE [text |-> TOOL_NOT_FOUND, thrown |-> FALSE, ran |-> <<>>, ok |-> FALSE]

----------------------------------------------------------------------------
(* ChatManager.sendMessage (src/unnamed/part_003): context, agent loop *)

\* the notes the chat scenario starts with, in the order of the notes list
InitialNotes ==
    << [id |-> 2, title |-> "Beta Plan", body |-> "plan", tags |-> <<>>,
        updatedAt |-> 2, wikiLinks |-> <<>>, aiLinks |-> <<>>],
       [id |-> 1, title |-> "Beta", body |-> "beta", tags |-> <<>>,
        updatedAt |-> 1, wikiLinks |-> <<>>, aiLinks |-> <<>>] >>

\* one record of an existing note and one left behind by a deleted note
InitialEmbeddings ==
    { [noteId |-> 1, updatedAt |-> 1, vector |-> "Beta\nbeta"],
      [noteId |-> 8, updatedAt |-> 1, vector |-> "Gone\ngone"] }

InitialClock == Len(InitialNotes) + 1

\* ids a tool call may name: stored notes, a note created in the run, none
NoteIds == {1, InitialClock, 9}

\* a conversation loaded before the turn: one earlier exchange
PriorMessages ==
    << [conversationId |-> 1, role |-> "user", content |-> "hi"],
       [conversationId |-> 1, role |-> "assistant", content |-> "Hello."] >>
PriorHistory ==
    << [role |-> "user", content |-> "hi"],
       [role |-> "assistant", content |-> "Hello."] >>

NoExec == [name |-> "", ran |-> <<>>, text |-> "", thrown |-> FALSE, raises |-> FALSE]

\* texts the user types into the chat input (already trimmed, non-empty)
UserMessages == {"hi", "@Beta what does it say", "@Beta Plan status"}

\* the responses AIService.chat may resolve to.  raw is the response text,
\* braces tells whether /\{[\s\S]*\}/ matches it, parses whether JSON.parse
\* accepts the match; tool and arguments are the members of the parsed object
\* ("" when missing or falsy).
NoCall == [tool |-> "", arguments |-> ""]
PlainReplies ==
    { [raw |-> "The answer.", braces |-> FALSE, parses |-> FALSE, tool |-> "", arguments |-> ""],
      [raw |-> "", braces |-> FALSE, parses |-> FALSE, tool |-> "", arguments |-> ""],
      [raw |-> "Use {x} here", braces |-> TRUE, parses |-> FALSE, tool |-> "", arguments |-> ""],
      [raw |-> "{\"a\":1}", braces |-> TRUE, parses |-> TRUE, tool |-> "", arguments |-> ""],
      [raw |-> "{\"tool\":\"read_note\"}", braces |-> TRUE, parses |-> TRUE,
       tool |-> "read_note", arguments |-> ""] }
CallReplies ==
    { [raw |-> "call", braces |-> TRUE, parses |-> TRUE, tool |-> t, arguments |-> a] :
        t \in ToolNames, a \in {ArgObject} }
    \cup
    { [raw |-> "call", braces |-> TRUE, parses |-> TRUE, tool |-> "execute", arguments |-> a] :
        a \in ArgValues }
Replies == PlainReplies \cup CallReplies

\* the tool-call parsing of the agent loop: a parse error is swallowed and
\* leaves toolCall null
ParseToolCall(responseText) ==
    IF responseText.braces
    THEN IF responseText.parses
         THEN IF responseText.tool # "" /\ responseText.arguments # ""
              THEN [tool |-> responseText.tool, arguments |-> responseText.arguments]
              ELSE NoCall
         ELSE NoCall
    ELSE NoCall

STUCK_MESSAGE == "I'm sorry, I got stuck in a loop trying to perform actions."
THINKING == "Thinking..."
ERROR_PREFIX == "Error: "

\* [...notes].sort((a, b) => b.title.length - a.title.length): stable
RECURSIVE InsertByTitleLen(_, _)
InsertByTitleLen(sorted, n) ==
    IF sorted = <<>> THEN <<n>>
    ELSE IF Len(Head(sorted).title) >= Len(n.title)
         THEN <<Head(sorted)>> \o InsertByTitleLen(Tail(sorted), n)
         ELSE <<n>> \o sorted

\* a list left in the order of the note list
SortByTitleLen_asListed(seq) == seq

\* [...notes].sort((a, b) => b.title.length - a.title.length)
RECURSIVE SortByTitleLen(_)
SortByTitleLen(seq) ==
    IF seq = <<>> THEN <<>>
    ELSE InsertByTitleLen(SortByTitleLen(SubSeq(seq, 1, Len(seq) - 1)), seq[Len(seq)])

\* the loop of "B. Explicit Mentions" over the sorted notes
RECURSIVE MentionMatches(_, _, _)
MentionMatches(sortedNotes, message, active) ==
    IF sortedNotes = <<>> THEN <<>>
    ELSE LET n == Head(sortedNotes)
             rest == MentionMatches(Tail(sortedNotes), message, active)
         IN  IF Includes(message, "@" \o n.title) /\ n.id # active
             THEN <<n.id>> \o rest
             ELSE rest

\* "A. Check for active note": the ids pushed to usedNotes
ActiveNoteUsed(noteList, active) ==
    IF active # 0 /\ \E i \in 1..Len(noteList) : noteList[i].id = active
    THEN <<active>> ELSE <<>>

\* the system prompt text chosen from activeNoteId and context
PromptKind(active, used) ==
    IF active # 0 /\ used # <<>> THEN "viewing"
    ELSE IF used # <<>> THEN "relevant"
    ELSE "none"

\* a loop condition that admits one iteration too many
LoopContinues_inclusive(t) == t <= MAX_TURNS

\* the loop condition: while (turn < MAX_TURNS)
LoopContinues(t) == t < MAX_TURNS

\* the end of the loop: if (!finalResponse) finalResponse = "...stuck..."
AfterLoop(text) ==
    /\ finalResponse' = IF text = "" THEN STUCK_MESSAGE ELSE text
    /\ pc' = "save"

\* "3. Agent Loop": the working message list and the first chat call
StartLoop(hist) ==
    /\ messages' = <<[role |-> "system", content |-> "systemPrompt"]>>
                      \o SliceLast(hist, HISTORY_WINDOW)
    /\ turn' = 0
    /\ toolCall' = NoCall
    /\ IF LoopContinues(0)
       THEN /\ finalResponse' = ""
            /\ chatCalls' = 1
            /\ pc' = "chat"
       ELSE /\ AfterLoop("")
            /\ chatCalls' = 0

\* sendMessage up to its first call of an external service
SendMessage(message) ==
    /\ UNCHANGED <<graphVars, indexVars, searchVars, connectVars>>
    /\ pc = "idle"
    /\ LET newConv == activeConversationId = 0
           conv == IF newConv THEN Cardinality(conversations) + 1
                   ELSE activeConversationId
           hist0 == IF newConv THEN <<>> ELSE history
           hist1 == Append(hist0, [role |-> "user", content |-> message])
           used == ActiveNoteUsed(notes, activeNoteId)
           mentionMatches == MentionMatches(SortByTitleLen(notes), message, activeNoteId)
       IN  /\ activeConversationId' = conv
           /\ conversations' = conversations \cup {conv}
           /\ turnStart' = chat_messages
           /\ chat_messages' = Append(chat_messages,
                  [conversationId |-> conv, role |-> "user", content |-> message])
           /\ history' = hist1
           /\ uiMessage' = THINKING
           /\ lastExec' = NoExec
           /\ lastReply' = <<>>
           /\ turnConversationId' = conv
           /\ IF mentionMatches # <<>>
              THEN /\ usedNotes' = used \o mentionMatches
                   /\ promptKind' = PromptKind(activeNoteId, used \o mentionMatches)
                   /\ StartLoop(hist1)
              ELSE IF activeNoteId = 0
              THEN \* await VectorStore.search(message, 3)
                   /\ usedNotes' = used
                   /\ promptKind' = "none"
                   /\ pc' = "rag"
                   /\ chatCalls' = 0
                   /\ UNCHANGED <<messages, turn, finalResponse, toolCall>>
              ELSE /\ usedNotes' = used
                   /\ promptKind' = PromptKind(activeNoteId, used)
                   /\ StartLoop(hist1)
    /\ UNCHANGED noteVars

\* VectorStore.search resolves: the ids of the k best stored records in rank
\* order (the ranking depends on the query vector the service returns)
Rankings(k) ==
    LET ids == {e.noteId : e \in db_embeddings}
        len == IF Cardinality(ids) < k THEN Cardinality(ids) ELSE k
    IN  {r \in [1..len -> ids] : \A i, j \in 1..len : i # j => r[i] # r[j]}

\* fetchedNotes.filter(n => n)
RECURSIVE ExistingOnly(_, _)
ExistingOnly(ids, db) ==
    IF ids = <<>> THEN <<>>
    ELSE IF HasNote(db, Head(ids)) THEN <<Head(ids)>> \o ExistingOnly(Tail(ids), db)
         ELSE ExistingOnly(Tail(ids), db)

RagResult ==
    /\ UNCHANGED <<graphVars, indexVars, searchVars, connectVars>>
    /\ pc = "rag"
    /\ \E results \in Rankings(RAG_K) :
          LET ragNotes == ExistingOnly(results, db_notes)
          IN  /\ usedNotes' = IF ragNotes # <<>> THEN ragNotes ELSE usedNotes
              /\ promptKind' = PromptKind(activeNoteId, ragNotes)
    /\ StartLoop(history)
    /\ UNCHANGED <<activeConversationId, conversations, chat_messages, history,
                   uiMessage, lastExec, lastReply, turnConversationId, turnStart>>
    /\ UNCHANGED noteVars

\* a catch block that also records the failure as an assistant turn
CatchError_recorded ==
    /\ uiMessage' = ERROR_PREFIX
    /\ pc' = "error"
    /\ chat_messages' = Append(chat_messages,
          [conversationId |-> activeConversationId, role |-> "assistant",
           content |-> ERROR_PREFIX])
    /\ history' = Append(history, [role |-> "assistant", content |-> ERROR_PREFIX])

\* the catch block of sendMessage: the error text replaces the thinking
\* bubble; nothing is written to the conversation
CatchError ==
    /\ uiMessage' = ERROR_PREFIX
    /\ pc' = "error"
    /\ UNCHANGED <<chat_messages, history>>

\* AIService.generateEmbedding rejects inside VectorStore.search
RagFail ==
    /\ UNCHANGED <<graphVars, indexVars, searchVars, connectVars>>
    /\ pc = "rag"
    /\ CatchError
    /\ UNCHANGED <<activeConversationId, conversations,
                   messages, usedNotes, promptKind, turn, toolCall, finalResponse,
                   chatCalls, lastExec, lastReply, turnConversationId, turnStart>>
    /\ UNCHANGED noteVars

\* AIService.chat rejects (network error or non-2xx response): the await in
\* the loop throws and the catch block of sendMessage runs
ChatFail ==
    /\ UNCHANGED <<graphVars, indexVars, searchVars, connectVars>>
    /\ pc = "chat"
    /\ CatchError
    /\ UNCHANGED <<activeConversationId, conversations,
                   messages, usedNotes, promptKind, turn, toolCall, finalResponse,
                   chatCalls, lastExec, lastReply, turnConversationId, turnStart>>
    /\ UNCHANGED noteVars

\* AIService.chat resolves to responseText
ChatReply(responseText) ==
    /\ UNCHANGED <<graphVars, indexVars, searchVars, connectVars>>
    /\ pc = "chat"
    /\ LET call == ParseToolCall(responseText)
       IN  IF call # NoCall
           THEN /\ toolCall' = call
                /\ uiMessage' = "Executing"
                /\ pc' = "tool"
                /\ UNCHANGED finalResponse
           ELSE /\ AfterLoop(responseText.raw)
                /\ UNCHANGED <<toolCall, uiMessage>>
    /\ lastExec' = NoExec
    /\ lastReply' = <<responseText>>
    /\ UNCHANGED turnConversationId
    /\ UNCHANGED <<activeConversationId, conversations, chat_messages, history,
                   messages, usedNotes, promptKind, turn, chatCalls,
                   turnStart>>
    /\ UNCHANGED noteVars

\* contents a tool call may carry
ToolContents == {"more text"}

\* AITools.create_note: the note it saves
CreatedNote(content) ==
    [id |-> now, title |-> "Untitled", body |-> content, tags |-> <<>>,
     updatedAt |-> now, wikiLinks |-> <<>>, aiLinks |-> <<>>]

\* AITools.update_note: the note it saves
UpdatedNote(note, content, mode) ==
    [note EXCEPT !.body = IF mode = "overwrite" THEN content
                          ELSE note.body \o "\n" \o content,
                 !.updatedAt = now]

\* effect of the tool implementations on db.notes; the global notes list and
\* the editor are untouched because window.notes and window.activeNoteId are
\* undefined (notes and activeNoteId are let-bindings of the script)
ToolEffect(r, id, content, mode) ==
    IF r.ok /\ r.ran # <<>> /\ r.ran[Len(r.ran)] = "create_note"
    THEN db_notes' = NoteDAO_save(db_notes, CreatedNote(content))
    ELSE IF r.ok /\ r.ran # <<>> /\ r.ran[Len(r.ran)] = "update_note"
                 /\ HasNote(db_notes, id)
    THEN db_notes' = NoteDAO_save(db_notes,
                        UpdatedNote(NoteDAO_get(db_notes, id), content, mode))
    ELSE UNCHANGED db_notes

\* a loop body that pushes the two tool turns to ChatManager.history too
ExecuteTool_persisting(raises, id, content, mode) ==
    /\ UNCHANGED <<graphVars, indexVars, searchVars, connectVars>>
    /\ pc = "tool"
    /\ mode = "append" => Len(NoteDAO_get(db_notes, id).body) < MaxBodyLen
    /\ LET r == execute(toolCall.tool, toolCall.arguments, raises)
       IN  /\ lastExec' = [name |-> toolCall.tool, ran |-> r.ran, text |-> r.text,
                           thrown |-> r.thrown, raises |-> raises]
           /\ lastReply' = <<>>
           /\ UNCHANGED turnConversationId
           /\ ToolEffect(r, id, content, mode)
           /\ IF r.thrown
              THEN /\ CatchError
                   /\ UNCHANGED <<messages, turn, finalResponse, chatCalls>>
              ELSE /\ UNCHANGED chat_messages
                   /\ history' = history \o
                        << [role |-> "assistant", content |-> "call"],
                           [role |-> "user", content |-> "Tool Result"] >>
                   /\ messages' = messages \o
                        << [role |-> "assistant", content |-> "call"],
                           [role |-> "user", content |-> "Tool Result"] >>
                   /\ turn' = turn + 1
                   /\ IF LoopContinues(turn + 1)
                      THEN /\ chatCalls' = chatCalls + 1
                           /\ pc' = "chat"
                           /\ UNCHANGED <<finalResponse, uiMessage>>
                      ELSE /\ AfterLoop("")
                           /\ UNCHANGED <<chatCalls, uiMessage>>
    /\ toolCall' = NoCall
    /\ UNCHANGED <<activeConversationId, conversations,
                   usedNotes, promptKind, turnStart>>
    /\ UNCHANGED <<now, activeNoteId, notes, db_embeddings>>

\* await window.AITools.execute(toolCall.tool, toolCall.arguments) and the
\* rest of the loop body up to the next chat call.  The working list records
\* the two turns pushed; the interpolated result text is kept in lastExec.
ExecuteTool(raises, id, content, mode) ==
    /\ UNCHANGED <<graphVars, indexVars, searchVars, connectVars>>
    /\ pc = "tool"
    /\ mode = "append" => Len(NoteDAO_get(db_notes, id).body) < MaxBodyLen
    /\ LET r == execute(toolCall.tool, toolCall.arguments, raises)
       IN  /\ lastExec' = [name |-> toolCall.tool, ran |-> r.ran, text |-> r.text,
                           thrown |-> r.thrown, raises |-> raises]
           /\ lastReply' = <<>>
           /\ UNCHANGED turnConversationId
           /\ ToolEffect(r, id, content, mode)
           /\ IF r.thrown
              THEN /\ CatchError
                   /\ UNCHANGED <<messages, turn, finalResponse, chatCalls>>
              ELSE /\ UNCHANGED <<chat_messages, history>>
                   /\ messages' = messages \o
                        << [role |-> "assistant", content |-> "call"],
                           [role |-> "user", content |-> "Tool Result"] >>
                   /\ turn' = turn + 1
                   /\ IF LoopContinues(turn + 1)
                      THEN /\ chatCalls' = chatCalls + 1
                           /\ pc' = "chat"
                           /\ UNCHANGED <<finalResponse, uiMessage>>
                      ELSE /\ AfterLoop("")
                           /\ UNCHANGED <<chatCalls, uiMessage>>
    /\ toolCall' = NoCall
    /\ UNCHANGED <<activeConversationId, conversations,
                   usedNotes, promptKind, turnStart>>
    /\ UNCHANGED <<now, activeNoteId, notes, db_embeddings>>

\* "Save AI response to DB", history update and final UI update
SaveAssistant ==
    /\ UNCHANGED <<graphVars, indexVars, searchVars, connectVars>>
    /\ pc = "save"
    /\ chat_messages' = Append(chat_messages,
          [conversationId |-> activeConversationId, role |-> "assistant",
           content |-> finalResponse])
    /\ history' = Append(history, [role |-> "assistant", content |-> finalResponse])
    /\ uiMessage' = finalResponse
    /\ pc' = "done"
    /\ UNCHANGED <<activeConversationId, conversations, messages, usedNotes,
                   promptKind, turn, toolCall, finalResponse, chatCalls,
                   lastExec, lastReply, turnConversationId,
                   turnStart>>
    /\ UNCHANGED noteVars

\* sendMessage returns to its caller; its locals go out of scope
Return ==
    /\ UNCHANGED <<graphVars, indexVars, searchVars, connectVars>>
    /\ pc \in {"done", "error"}
    /\ lastExec' = NoExec
    /\ lastReply' = <<>>
    /\ turnConversationId' = 0
    /\ pc' = "returned"
    /\ messages' = <<>>
    /\ turn' = 0
    /\ toolCall' = NoCall
    /\ finalResponse' = ""
    /\ usedNotes' = <<>>
    /\ promptKind' = "none"
    /\ UNCHANGED <<activeConversationId, conversations, chat_messages, history,
                   uiMessage, chatCalls, turnStart>>
    /\ UNCHANGED noteVars

\* time passes: Date.now() grows
Tick ==
    /\ UNCHANGED <<graphVars, indexVars, searchVars, connectVars>>
    /\ now < InitialClock + MaxTicks
    /\ now' = now + 1
    /\ UNCHANGED agentVars
    /\ UNCHANGED <<activeNoteId, notes, db_notes, db_embeddings>>

----------------------------------------------------------------------------
\* the graph view has not been opened
GraphIdle == graphState = "idle" /\ graphEdges = <<>>

\* no VectorStore.search call has resolved
SearchIdle == searchK = 0 /\ searchScore = <<>> /\ searchResults = <<>>

\* no triggerAIConnect call is running
ConnectIdle == connectPc = "idle"

\* no save is in progress
IndexIdle ==
    /\ savePc = "idle"
    /\ saveNoteId = 0
    /\ indexPc = "idle"
    /\ linkPc = "idle"
    /\ embedText = ""
    /\ saveTimeout = FALSE
    /\ indexOutcome = "none"

\* the chat pane has not been used
AgentIdle ==
    /\ pc = "idle"
    /\ activeConversationId = 0
    /\ conversations = {}
    /\ chat_messages = <<>>
    /\ history = <<>>
    /\ messages = <<>>
    /\ usedNotes = <<>>
    /\ promptKind = "none"
    /\ turn = 0
    /\ toolCall = NoCall
    /\ finalResponse = ""
    /\ uiMessage = ""
    /\ chatCalls = 0
    /\ lastExec = NoExec
    /\ lastReply = <<>>
    /\ turnConversationId = 0
    /\ turnStart = <<>>

(* Specification of the agent turn: one sendMessage call, from a fresh chat
   or from a loaded conversation *)

Init ==
    /\ pc = "idle"
    /\ \/ /\ activeConversationId = 0
          /\ conversations = {}
          /\ chat_messages = <<>>
          /\ history = <<>>
       \/ /\ activeConversationId = 1
          /\ conversations = {1}
          /\ chat_messages = PriorMessages
          /\ history = PriorHistory
    /\ messages = <<>>
    /\ usedNotes = <<>>
    /\ promptKind = "none"
    /\ turn = 0
    /\ toolCall = NoCall
    /\ finalResponse = ""
    /\ uiMessage = ""
    /\ chatCalls = 0
    /\ lastExec = NoExec
    /\ lastReply = <<>>
    /\ turnConversationId = 0
    /\ turnStart = <<>>
    /\ now = InitialClock
    /\ activeNoteId \in {0, 1, 9}
    /\ notes \in {InitialNotes, <<InitialNotes[2], InitialNotes[1]>>}
    /\ db_notes = Range(InitialNotes)
    /\ db_embeddings = InitialEmbeddings
    /\ GraphIdle
    /\ SearchIdle
    /\ ConnectIdle
    /\ IndexIdle

Next ==
    \/ \E message \in UserMessages : SendMessage(message)
    \/ RagResult
    \/ RagFail
    \/ \E responseText \in Replies : ChatReply(responseText)
    \/ ChatFail
    \/ \E raises \in BOOLEAN, id \in NoteIds, content \in ToolContents,
          mode \in {"append", "overwrite"} : ExecuteTool(raises, id, content, mode)
    \/ SaveAssistant
    \/ Return
    \/ pc = "chat" /\ Tick

Spec == Init /\ [][Next]_vars

\* The event loop runs every continuation that is ready: a tool execution, the
\* save of the assistant message and the return of sendMessage always happen.
\* Nothing obliges the inference service to answer.
FairSpec ==
    /\ Spec
    /\ WF_vars(\E raises \in BOOLEAN, id \in NoteIds, content \in ToolContents,
                  mode \in {"append", "overwrite"} : ExecuteTool(raises, id, content, mode))
    /\ WF_vars(SaveAssistant)
    /\ WF_vars(Return)

----------------------------------------------------------------------------
(* Properties of the agent turn *)

\* the chat call of the running turn failed
ChatCallFailed == pc = "error" /\ chatCalls > 0

\* the user message the running turn persisted
TurnUserMessage == chat_messages[Len(turnStart) + 1]

\* C1: in one agent turn AIService.chat is called at most 5 times, whatever
\* the model replies, also when every reply is a well-formed tool call.
C1_AtMostFiveChatCalls == chatCalls <= 5

\* five tool calls were executed, each after its own chat call
C1_Witness == chatCalls = 5 /\ turn = 5 /\ pc = "save"

\* C3: every agent turn eventually ends with a user-visible final answer or
\* error, also when the service never answers a chat call.
C3_TurnEventuallyEnds ==
    (pc = "chat") ~> (pc \in {"done", "error"} /\ uiMessage # THINKING)

\* C4 as stated: when the chat call fails, the persisted history of the
\* conversation is what it was before the turn.
C4_HistoryUnchanged == ChatCallFailed => chat_messages = turnStart

\* C4 amended: when the chat call fails at any iteration, the turn ends in
\* its catch block with an error text shown, and the persisted history is
\* what it was before the turn plus the user message of the turn: no
\* assistant turn is written.
C4_OnlyUserMessageWritten ==
    ChatCallFailed =>
        /\ uiMessage = ERROR_PREFIX
        /\ Len(chat_messages) = Len(turnStart) + 1
        /\ SubSeq(chat_messages, 1, Len(turnStart)) = turnStart
        /\ TurnUserMessage.role = "user"
        /\ TurnUserMessage.conversationId = activeConversationId

\* the chat call failed after two tool calls had been executed
C4_Witness == ChatCallFailed /\ turn = 2 /\ chatCalls = 3

C6_OnlyCatalogToolsRun ==
    (lastExec.name # "" /\ lastExec.name \notin Catalog) =>
        (lastExec.text = TOOL_NOT_FOUND /\ lastExec.ran = <<>>)

----------------------------------------------------------------------------
(* extractWikiLinks (src/unnamed/part_003) and renderGraph (src/graph.js) *)

\* position of the first occurrence of the one-character string c in s at or
\* after position i; 0 when there is none
RECURSIVE IndexFrom(_, _, _)
IndexFrom(s, c, i) ==
    IF i > Len(s) THEN 0
    ELSE IF SubSeq(s, i, i) = c THEN i
    ELSE IndexFrom(s, c, i + 1)

\* the matches of /\[\[([^\]]+)\]\]/g in content from position i on
RECURSIVE WikiLinksFrom(_, _)
WikiLinksFrom(content, i) ==
    IF i + 1 > Len(content) THEN <<>>
    ELSE IF SubSeq(content, i, i + 1) = "[["
    THEN LET j == IndexFrom(content, "]", i + 2)
         IN  IF j > i + 2 /\ j + 1 <= Len(content) /\ SubSeq(content, j, j + 1) = "]]"
             THEN <<SubSeq(content, i + 2, j - 1)>> \o WikiLinksFrom(content, j + 2)
             ELSE WikiLinksFrom(content, i + 1)
    ELSE WikiLinksFrom(content, i + 1)

extractWikiLinks(content) == WikiLinksFrom(content, 1)

\* String.prototype.toLowerCase over the letters the titles use
LowerChar(c) ==
    CASE c = "A" -> "a" [] c = "B" -> "b" [] c = "G" -> "g" [] c = "D" -> "d"
      [] c = "E" -> "e" [] c = "Z" -> "z" [] c = "U" -> "u" [] c = "P" -> "p"
      [] OTHER -> c

RECURSIVE toLowerCase(_)
toLowerCase(str) ==
    IF str = "" THEN ""
    ELSE LowerChar(SubSeq(str, 1, 1)) \o toLowerCase(SubSeq(str, 2, Len(str)))

\* NoteDAO.getAll: db.notes.toArray() is in primary-key order; the sort puts
\* the most recently updated note first and is stable (no note is pinned)
RECURSIVE GetAll(_)
GetAll(db) ==
    IF db = {} THEN <<>>
    ELSE LET first == CHOOSE n \in db : \A o \in db :
                          \/ n.updatedAt > o.updatedAt
                          \/ n.updatedAt = o.updatedAt /\ n.id <= o.id
         IN  <<first>> \o GetAll(db \ {first})

\* findNoteIdByTitle: the id of the first note with that title, ignoring case
RECURSIVE findNoteIdByTitle(_, _)
findNoteIdByTitle(all, title) ==
    IF all = <<>> THEN 0
    ELSE IF toLowerCase(Head(all).title) = toLowerCase(title) THEN Head(all).id
    ELSE findNoteIdByTitle(Tail(all), title)

\* an edge key that keeps the direction of the link
edgeKey_directed(a, b) == <<a, b>>

\* edgeKey: [a, b].sort().join('::'); ids are decimal timestamps of equal
\* length, for which the string order is the numeric order
edgeKey(a, b) == IF a <= b THEN <<a, b>> ELSE <<b, a>>

\* edgeMap.has / edgeMap.set: set on a present key replaces the value in place
MapHas(m, key) == \E i \in 1..Len(m) : m[i].key = key
MapSet(m, e) ==
    IF MapHas(m, e.key)
    THEN [i \in 1..Len(m) |-> IF m[i].key = e.key THEN e ELSE m[i]]
    ELSE Append(m, e)

Edge(from, to, style) ==
    [key |-> edgeKey(from, to), from |-> from, to |-> to, style |-> style]

\* "1. WikiLinks": the inner forEach over note.wikiLinks
RECURSIVE AddWikiLinks(_, _, _, _)
AddWikiLinks(m, all, id, links) ==
    IF links = <<>> THEN m
    ELSE LET targetId == findNoteIdByTitle(all, Head(links))
             m1 == IF targetId # 0 THEN MapSet(m, Edge(id, targetId, "explicit")) ELSE m
         IN  AddWikiLinks(m1, all, id, Tail(links))

RECURSIVE WikiPass(_, _, _)
WikiPass(m, all, rest) ==
    IF rest = <<>> THEN m
    ELSE WikiPass(AddWikiLinks(m, all, Head(rest).id, Head(rest).wikiLinks), all, Tail(rest))

\* "2. AI Links": the inner forEach over note.aiLinks
RECURSIVE AddAILinks(_, _, _, _)
AddAILinks(m, all, id, links) ==
    IF links = <<>> THEN m
    ELSE LET targetId == Head(links)
             found == \E i \in 1..Len(all) : all[i].id = targetId
             m1 == IF found /\ ~MapHas(m, edgeKey(id, targetId))
                   THEN MapSet(m, Edge(id, targetId, "inferred")) ELSE m
         IN  AddAILinks(m1, all, id, Tail(links))

RECURSIVE AIPass(_, _, _)
AIPass(m, all, rest) ==
    IF rest = <<>> THEN m
    ELSE AIPass(AddAILinks(m, all, Head(rest).id, Head(rest).aiLinks), all, Tail(rest))

\* "3. Tag Connections": the nested loops over i < j
CommonTags(A, B) == Range(A.tags) \cap Range(B.tags)

RECURSIVE TagPass(_, _, _, _)
TagPass(m, all, i, j) ==
    IF i > Len(all) THEN m
    ELSE IF j > Len(all) THEN TagPass(m, all, i + 1, i + 2)
    ELSE LET A == all[i]
             B == all[j]
             m1 == IF CommonTags(A, B) # {} /\ ~MapHas(m, edgeKey(A.id, B.id))
                   THEN MapSet(m, Edge(A.id, B.id, "tag")) ELSE m
         IN  TagPass(m1, all, i, j + 1)

\* the edge list renderGraph hands to the network
computeGraphEdges(all) == TagPass(AIPass(WikiPass(<<>>, all, all), all, all), all, 1, 2)

\* renderGraph: fetch all notes, build the edges
RenderGraph ==
    /\ graphState = "idle"
    /\ graphState' = "rendered"
    /\ graphEdges' = computeGraphEdges(GetAll(db_notes))
    /\ UNCHANGED <<agentVars, noteVars, indexVars, searchVars, connectVars>>

----------------------------------------------------------------------------
(* Specification of the graph construction: renderGraph over bounded note
   sets *)

Titles == <<"Alpha", "Beta", "Gamma", "Delta", "Epsilon">>
TagChoices == {<<>>, <<"work">>, <<"home">>}

\* titles a wiki link may name in a set of n notes: the n titles, a title in
\* another case, a title no note has
LinkTitles(n) ==
    [i \in 1..(n + 2) |-> IF i <= n THEN Titles[i] ELSE IF i = n + 1 THEN "beta" ELSE "Zeta"]

\* a link is <<source id, kind, target>>: a wiki link targets an index of
\* LinkTitles(n), an AI link targets a note id (n + 1 is the id of no note)
LinkUniverse(n) ==
    {<<src, "wiki", t>> : src \in 1..n, t \in 1..(n + 2)}
    \cup {<<src, "ai", t>> : src \in 1..n, t \in 1..(n + 1)}

LinkSets(n) == {{}} \cup {Range(f) : f \in [1..MaxGraphLinks -> LinkUniverse(n)]}

\* a note body that holds the given wiki links
RECURSIVE BodyWithLinks(_)
BodyWithLinks(titles) ==
    IF titles = <<>> THEN "see"
    ELSE BodyWithLinks(SubSeq(titles, 1, Len(titles) - 1))
             \o " [[" \o titles[Len(titles)] \o "]]"

\* a stored note: wikiLinks is what saveCurrentNote extracted from the body
GraphNote(n, i, links, tags, order) ==
    LET linked == SelectSeq(LinkTitles(n), LAMBDA t :
                      \E k \in 1..(n + 2) : LinkTitles(n)[k] = t /\ <<i, "wiki", k>> \in links)
        body == BodyWithLinks(linked)
    IN  [id |-> i, title |-> Titles[i], body |-> body, tags |-> tags[i],
         updatedAt |-> IF order = "oldestFirst" THEN n + 1 - i ELSE i,
         wikiLinks |-> extractWikiLinks(body),
         aiLinks |-> SelectSeq([k \in 1..(n + 1) |-> k], LAMBDA k : <<i, "ai", k>> \in links)]

GraphNotes(n, links, tags, order) == {GraphNote(n, i, links, tags, order) : i \in 1..n}

InitGraph ==
    /\ AgentIdle
    /\ GraphIdle
    /\ SearchIdle
    /\ ConnectIdle
    /\ IndexIdle
    /\ now = MaxGraphNotes + 1
    /\ activeNoteId = 0
    /\ \E n \in 2..MaxGraphNotes :
          \E links \in LinkSets(n), tags \in [1..n -> TagChoices],
             order \in {"oldestFirst", "newestFirst"} :
                db_notes = GraphNotes(n, links, tags, order)
    /\ notes = <<>>
    /\ db_embeddings = {}

NextGraph == RenderGraph

SpecGraph == InitGraph /\ [][NextGraph]_vars

----------------------------------------------------------------------------
(* Properties of the graph construction *)

Pair(a, b) == {a, b}
EdgePair(e) == {e.from, e.to}

\* the pairs joined by a wiki link that resolves to a note
WikiPairs(all) ==
    UNION { {Pair(all[i].id, findNoteIdByTitle(all, all[i].wikiLinks[k])) :
                k \in {x \in 1..Len(all[i].wikiLinks) :
                          findNoteIdByTitle(all, all[i].wikiLinks[x]) # 0}} :
            i \in 1..Len(all) }

\* the pairs joined by an AI link that names an existing note
AIPairs(all) ==
    UNION { {Pair(all[i].id, all[i].aiLinks[k]) :
                k \in {x \in 1..Len(all[i].aiLinks) :
                          \E j \in 1..Len(all) : all[j].id = all[i].aiLinks[x]}} :
            i \in 1..Len(all) }

\* the pairs of different notes with a tag in common
TagPairs(all) ==
    {Pair(all[q[1]].id, all[q[2]].id) :
        q \in {r \in (1..Len(all)) \X (1..Len(all)) :
                  r[1] # r[2] /\ CommonTags(all[r[1]], all[r[2]]) # {}}}

\* the highest-priority source that connects the pair
BestSource(pair, wiki, ai, tag) ==
    IF pair \in wiki THEN "explicit"
    ELSE IF pair \in ai THEN "inferred"
    ELSE IF pair \in tag THEN "tag"
    ELSE "none"

\* the corpus Alpha (body links [[Beta]]), Beta and Gamma (both tagged work)
ExampleCorpus ==
    \E order \in {"oldestFirst", "newestFirst"} :
        db_notes = GraphNotes(3, {<<1, "wiki", 2>>},
                              << <<>>, <<"work">>, <<"work">> >>, order)

\* C2: the edge list holds at most one edge per unordered pair of note ids;
\* that edge carries the style of the highest-priority source connecting the
\* pair (explicit > inferred > tag) and every connected pair has its edge; for
\* the corpus Alpha -> [[Beta]], Beta and Gamma tagged work the result is
\* exactly the explicit edge Alpha-Beta and the tag edge Beta-Gamma.
C2_OneEdgePerPairBestStyle ==
    graphState = "rendered" =>
        LET all == GetAll(db_notes)
            wiki == WikiPairs(all)
            ai == AIPairs(all)
            tag == TagPairs(all)
        IN  /\ \A i, j \in 1..Len(graphEdges) :
                  i # j => EdgePair(graphEdges[i]) # EdgePair(graphEdges[j])
            /\ \A i \in 1..Len(graphEdges) :
                  /\ graphEdges[i].style # "none"
                  /\ graphEdges[i].style = BestSource(EdgePair(graphEdges[i]), wiki, ai, tag)
            /\ \A pair \in wiki \cup ai \cup tag :
                  \E i \in 1..Len(graphEdges) : EdgePair(graphEdges[i]) = pair
            /\ ExampleCorpus =>
                  {<<EdgePair(e), e.style>> : e \in Range(graphEdges)}
                      = {<<{1, 2}, "explicit">>, <<{2, 3}, "tag">>}

\* a pair of notes connected by a wiki link, by an AI link in the opposite
\* direction and by a shared tag has one edge, the explicit one
C2_Witness ==
    /\ graphState = "rendered"
    /\ \E A \in db_notes, B \in db_notes :
          /\ A.id # B.id
          /\ \E k \in 1..Len(A.wikiLinks) :
                findNoteIdByTitle(GetAll(db_notes), A.wikiLinks[k]) = B.id
          /\ A.id \in Range(B.aiLinks)
          /\ CommonTags(A, B) # {}
          /\ \E i \in 1..Len(graphEdges) :
                /\ EdgePair(graphEdges[i]) = Pair(A.id, B.id)
                /\ graphEdges[i].style = "explicit"

----------------------------------------------------------------------------
(* The save path: handleInput, saveCurrentNote, autoLinkNote
   (src/unnamed/part_003) and VectorStore.indexNote (src/vector-store.js) *)

\* notes.find(n => n.id === id) on the in-memory list
CachePos(id) == CHOOSE i \in 1..Len(notes) : notes[i].id = id
InCache(id) == \E i \in 1..Len(notes) : notes[i].id = id
CacheNote(id) == notes[CachePos(id)]

\* the in-memory list after an assignment to a member of the note object
CacheWith(id, note) == [notes EXCEPT ![CachePos(id)] = note]

\* String.prototype.trim
IsSpace(c) == c = " " \/ c = "\n"
RECURSIVE TrimLeft(_)
TrimLeft(str) ==
    IF str # "" /\ IsSpace(SubSeq(str, 1, 1)) THEN TrimLeft(SubSeq(str, 2, Len(str)))
    ELSE str
RECURSIVE TrimRight(_)
TrimRight(str) ==
    IF str # "" /\ IsSpace(SubSeq(str, Len(str), Len(str)))
    THEN TrimRight(SubSeq(str, 1, Len(str) - 1))
    ELSE str
Trim(str) == TrimRight(TrimLeft(str))

\* the text indexNote sends to the embedding service
EmbeddingText(note) == note.title \o "\n" \o note.body

\* db.embeddings.get / put (primary key noteId)
HasEmbedding(db, id) == \E e \in db : e.noteId = id
EmbeddingOf(db, id) == CHOOSE e \in db : e.noteId = id
PutEmbedding(db, rec) == {e \in db : e.noteId # rec.noteId} \cup {rec}

\* a freshness test that never finds the record fresh
IsFresh_never(db, note) == FALSE

\* "Check if embedding exists and is fresh"
IsFresh(db, note) ==
    HasEmbedding(db, note.id) /\ EmbeddingOf(db, note.id).updatedAt >= note.updatedAt

\* texts typed into the editor
EditorBodies == {"", "short text", "see [[Beta]] for the full plan",
                 "a second body that is long enough"}
EditorTitles == {"Alpha", "Alpha II"}

\* handleInput on the title or the body field of the editor
HandleInput(field, value) ==
    /\ activeNoteId # 0
    /\ InCache(activeNoteId)
    /\ LET note == CacheNote(activeNoteId)
       IN  /\ \/ field = "note-title" /\ value \in EditorTitles /\ value # note.title
              \/ field = "note-body" /\ value \in EditorBodies /\ value # note.body
           /\ notes' = CacheWith(activeNoteId,
                  IF field = "note-title"
                  THEN [note EXCEPT !.title = value, !.updatedAt = now]
                  ELSE [note EXCEPT !.body = value, !.updatedAt = now])
    /\ saveTimeout' = TRUE
    /\ UNCHANGED <<now, activeNoteId, db_notes, db_embeddings>>
    /\ UNCHANGED <<savePc, saveNoteId, indexPc, linkPc, embedText, indexOutcome>>
    /\ UNCHANGED <<agentVars, graphVars, searchVars, connectVars>>

\* saveCurrentNote up to "await NoteDAO.save(note)"; called by the debounce
\* timer or directly (togglePin, tag input); one call is followed at a time.
SaveCurrentNote(byTimer) ==
    /\ savePc = "idle"
    /\ byTimer => saveTimeout
    /\ activeNoteId # 0
    /\ InCache(activeNoteId)
    /\ LET note == [CacheNote(activeNoteId) EXCEPT
                       !.wikiLinks = extractWikiLinks(CacheNote(activeNoteId).body)]
       IN  /\ notes' = CacheWith(activeNoteId, note)
           /\ db_notes' = NoteDAO_save(db_notes, note)
    /\ saveTimeout' = IF byTimer THEN FALSE ELSE saveTimeout
    /\ saveNoteId' = activeNoteId
    /\ savePc' = "persist"
    /\ UNCHANGED <<now, activeNoteId, db_embeddings>>
    /\ UNCHANGED <<indexPc, linkPc, embedText, indexOutcome>>
    /\ UNCHANGED <<agentVars, graphVars, searchVars, connectVars>>

\* an autoLinkNote that searches whatever the length of the body
StartAutoLink_always ==
    /\ linkPc' = "search"
    /\ savePc' = "link"
    /\ UNCHANGED saveNoteId

\* "await autoLinkNote(note)" up to its first await, and the return of
\* saveCurrentNote when autoLinkNote returns at once
StartAutoLink ==
    LET note == CacheNote(saveNoteId)
    IN  IF note.body = "" \/ Len(Trim(note.body)) < AUTO_LINK_MIN_BODY
        THEN /\ linkPc' = "idle"
             /\ savePc' = "idle"
             /\ saveNoteId' = 0
        ELSE /\ linkPc' = "search"
             /\ savePc' = "link"
             /\ UNCHANGED saveNoteId

\* NoteDAO.save resolved: "await VectorStore.indexNote(note)" up to the first
\* await of indexNote
SavePersisted ==
    /\ savePc = "persist"
    /\ IF CacheNote(saveNoteId).body = ""
       THEN /\ indexOutcome' = "empty"
            /\ indexPc' = "idle"
            /\ StartAutoLink
       ELSE /\ indexPc' = "get"
            /\ savePc' = "index"
            /\ UNCHANGED <<saveNoteId, linkPc, indexOutcome>>
    /\ UNCHANGED <<embedText, saveTimeout>>
    /\ UNCHANGED noteVars
    /\ UNCHANGED <<agentVars, graphVars, searchVars, connectVars>>

\* db.embeddings.get resolved: the freshness check of indexNote and the call
\* of AIService.generateEmbedding
IndexCheck ==
    /\ indexPc = "get"
    /\ IF IsFresh(db_embeddings, CacheNote(saveNoteId))
       THEN /\ indexOutcome' = "fresh"
            /\ indexPc' = "idle"
            /\ StartAutoLink
            /\ UNCHANGED embedText
       ELSE /\ embedText' = EmbeddingText(CacheNote(saveNoteId))
            /\ indexPc' = "embed"
            /\ UNCHANGED <<savePc, saveNoteId, linkPc, indexOutcome>>
    /\ UNCHANGED saveTimeout
    /\ UNCHANGED noteVars
    /\ UNCHANGED <<agentVars, graphVars, searchVars, connectVars>>

\* generateEmbedding resolved: the record is written with the time of the
\* write; the vector stands for the text it was generated from
EmbedReply ==
    /\ indexPc = "embed"
    /\ db_embeddings' = PutEmbedding(db_embeddings,
          [noteId |-> saveNoteId, updatedAt |-> now, vector |-> embedText])
    /\ indexOutcome' = "indexed"
    /\ indexPc' = "idle"
    /\ embedText' = ""
    /\ StartAutoLink
    /\ UNCHANGED saveTimeout
    /\ UNCHANGED <<now, activeNoteId, notes, db_notes>>
    /\ UNCHANGED <<agentVars, graphVars, searchVars, connectVars>>

\* a failure path that leaves a record without a vector behind
EmbedFail_partial ==
    /\ indexPc = "embed"
    /\ db_embeddings' = PutEmbedding(db_embeddings,
          [noteId |-> saveNoteId, updatedAt |-> now, vector |-> ""])
    /\ indexOutcome' = "failed"
    /\ indexPc' = "idle"
    /\ embedText' = ""
    /\ StartAutoLink
    /\ UNCHANGED saveTimeout
    /\ UNCHANGED <<now, activeNoteId, notes, db_notes>>
    /\ UNCHANGED <<agentVars, graphVars, searchVars, connectVars>>

\* generateEmbedding rejected: the catch block of indexNote logs, indexNote
\* returns normally
EmbedFail ==
    /\ indexPc = "embed"
    /\ indexOutcome' = "failed"
    /\ indexPc' = "idle"
    /\ embedText' = ""
    /\ StartAutoLink
    /\ UNCHANGED saveTimeout
    /\ UNCHANGED noteVars
    /\ UNCHANGED <<agentVars, graphVars, searchVars, connectVars>>

\* similarity scores in hundredths, as the embedding service may yield them
SearchScores == {20, 30, 40}

\* the records in the order of db.embeddings.toArray(), not sorted
RECURSIVE SortedResults_unsorted(_, _)
SortedResults_unsorted(ids, score) ==
    IF ids = {} THEN <<>>
    ELSE LET first == CHOOSE i \in ids : \A j \in ids : i <= j
         IN  <<[noteId |-> first, score |-> score[first]]>>
                 \o SortedResults_unsorted(ids \ {first}, score)

\* results.sort((a, b) => b.score - a.score) over db.embeddings.toArray(),
\* which lists the records by primary key; the sort is stable
RECURSIVE SortedResults(_, _)
SortedResults(ids, score) ==
    IF ids = {} THEN <<>>
    ELSE LET best == CHOOSE i \in ids :
                        \A j \in ids : score[i] > score[j]
                                       \/ (score[i] = score[j] /\ i <= j)
         IN  <<[noteId |-> best, score |-> score[best]]>>
                 \o SortedResults(ids \ {best}, score)

\* VectorStore.search(query, k)
Search(db, score, k) == SliceFirst(SortedResults({e.noteId : e \in db}, score), k)

\* results.filter(r => r.noteId !== note.id && r.score > 0.3).map(r => r.noteId)
RECURSIVE SimilarNoteIds(_, _)
SimilarNoteIds(results, id) ==
    IF results = <<>> THEN <<>>
    ELSE IF Head(results).noteId # id /\ Head(results).score > SIMILARITY_THRESHOLD
         THEN <<Head(results).noteId>> \o SimilarNoteIds(Tail(results), id)
         ELSE SimilarNoteIds(Tail(results), id)

\* [...new Set(seq)]
RECURSIVE Dedup(_)
Dedup(seq) ==
    IF seq = <<>> THEN <<>>
    ELSE LET front == Dedup(SubSeq(seq, 1, Len(seq) - 1))
         IN  IF seq[Len(seq)] \in Range(front) THEN front
             ELSE Append(front, seq[Len(seq)])

\* VectorStore.search(query, 5) of autoLinkNote resolves: the scores are those
\* of the query vector the service returned against the stored records
LinkSearchReply(score) ==
    /\ linkPc = "search"
    /\ linkPc' = "filter"
    /\ searchK' = AUTO_LINK_K
    /\ searchScore' = score
    /\ searchResults' = Search(db_embeddings, score, AUTO_LINK_K)
    /\ UNCHANGED <<savePc, saveNoteId, indexPc, embedText, saveTimeout, indexOutcome>>
    /\ UNCHANGED noteVars
    /\ UNCHANGED <<agentVars, graphVars, connectVars>>

\* the rest of autoLinkNote, run in the microtask in which the search
\* settled: the links are merged into the note object and the note is saved;
\* saveCurrentNote returns
AutoLinkApply ==
    /\ linkPc = "filter"
    /\ LET note == CacheNote(saveNoteId)
           similar == SimilarNoteIds(searchResults, note.id)
           linked == [note EXCEPT !.aiLinks =
                         SliceFirst(Dedup(note.aiLinks \o similar), AUTO_LINK_MAX)]
       IN  IF similar # <<>>
           THEN /\ notes' = CacheWith(saveNoteId, linked)
                /\ db_notes' = NoteDAO_save(db_notes, linked)
           ELSE UNCHANGED <<notes, db_notes>>
    /\ linkPc' = "idle"
    /\ savePc' = "idle"
    /\ saveNoteId' = 0
    /\ searchK' = 0
    /\ searchScore' = <<>>
    /\ searchResults' = <<>>
    /\ UNCHANGED <<now, activeNoteId, db_embeddings>>
    /\ UNCHANGED <<indexPc, embedText, saveTimeout, indexOutcome>>
    /\ UNCHANGED <<agentVars, graphVars, connectVars>>

\* VectorStore.search rejected: the catch block of autoLinkNote logs
LinkSearchFail ==
    /\ linkPc = "search"
    /\ linkPc' = "idle"
    /\ savePc' = "idle"
    /\ saveNoteId' = 0
    /\ UNCHANGED <<indexPc, embedText, saveTimeout, indexOutcome>>
    /\ UNCHANGED noteVars
    /\ UNCHANGED <<agentVars, graphVars, searchVars, connectVars>>

\* AITools.update_note run by another writer (an agent turn) while the editor
\* is open: it reads the persisted note, changes the body and saves it; the
\* note object of the in-memory list is not touched
UpdateNoteTool(id, content, mode) ==
    /\ HasNote(db_notes, id)
    /\ mode = "append" => Len(NoteDAO_get(db_notes, id).body) < MaxBodyLen
    /\ UpdatedNote(NoteDAO_get(db_notes, id), content, mode) # NoteDAO_get(db_notes, id)
    /\ db_notes' = NoteDAO_save(db_notes,
                      UpdatedNote(NoteDAO_get(db_notes, id), content, mode))
    /\ UNCHANGED <<now, activeNoteId, notes, db_embeddings>>
    /\ UNCHANGED indexVars
    /\ UNCHANGED <<agentVars, graphVars, searchVars, connectVars>>

\* triggerAIConnect up to "await AIService.findRelatedNotes"
TriggerAIConnect ==
    /\ connectPc = "idle"
    /\ activeNoteId # 0
    /\ InCache(activeNoteId)
    /\ CacheNote(activeNoteId).body # ""
    /\ connectPc' = "query"
    /\ UNCHANGED <<agentVars, noteVars, graphVars, indexVars, searchVars>>

\* arrays findRelatedNotes may return: it parses whatever JSON array the
\* model wrote, and returns [] on any failure
AIRelated == {<<>>, <<2>>, <<2, 2>>, <<2, 2, 2, 2, 2>>}

\* findRelatedNotes resolved: the array becomes the AI-link list of the note
\* object and saveCurrentNote is called, which runs up to its first await.
\* What follows the save in triggerAIConnect only updates the status line.
AIConnectReply(relatedIds) ==
    /\ connectPc = "query"
    /\ connectPc' = "idle"
    /\ IF relatedIds # <<>>
       THEN /\ savePc = "idle"
            /\ LET note == [CacheNote(activeNoteId) EXCEPT
                               !.aiLinks = relatedIds,
                               !.wikiLinks = extractWikiLinks(CacheNote(activeNoteId).body)]
               IN  /\ notes' = CacheWith(activeNoteId, note)
                   /\ db_notes' = NoteDAO_save(db_notes, note)
            /\ saveNoteId' = activeNoteId
            /\ savePc' = "persist"
       ELSE UNCHANGED <<notes, db_notes, saveNoteId, savePc>>
    /\ UNCHANGED <<now, activeNoteId, db_embeddings>>
    /\ UNCHANGED <<indexPc, linkPc, embedText, saveTimeout, indexOutcome>>
    /\ UNCHANGED <<agentVars, graphVars, searchVars>>

\* notes.filter(n => n.id !== id)
RECURSIVE WithoutNote(_, _)
WithoutNote(noteList, id) ==
    IF noteList = <<>> THEN <<>>
    ELSE IF Head(noteList).id = id THEN WithoutNote(Tail(noteList), id)
         ELSE <<Head(noteList)>> \o WithoutNote(Tail(noteList), id)

\* deleteCurrentNote, confirmed by the user; followed when no save and no AI
\* connect is running for the note
DeleteCurrentNote ==
    /\ activeNoteId # 0
    /\ savePc = "idle"
    /\ connectPc = "idle"
    /\ db_notes' = {n \in db_notes : n.id # activeNoteId}
    /\ notes' = WithoutNote(notes, activeNoteId)
    /\ activeNoteId' = IF WithoutNote(notes, activeNoteId) # <<>>
                       THEN WithoutNote(notes, activeNoteId)[1].id ELSE 0
    /\ UNCHANGED <<now, db_embeddings>>
    /\ UNCHANGED <<agentVars, graphVars, indexVars, searchVars, connectVars>>

\* the notes of the save scenario: the note in the editor and one other note
IndexNotes(body) ==
    << [id |-> 2, title |-> "Beta", body |-> "the full plan of the project",
        tags |-> <<>>, updatedAt |-> 2, wikiLinks |-> <<>>, aiLinks |-> <<>>],
       [id |-> 1, title |-> "Alpha", body |-> body, tags |-> <<>>,
        updatedAt |-> 1, wikiLinks |-> extractWikiLinks(body), aiLinks |-> <<>>] >>

\* the record of the other note
OtherEmbedding ==
    [noteId |-> 2, updatedAt |-> 2, vector |-> "Beta\nthe full plan of the project"]

\* the record of the note in the editor, written when it was last indexed
OwnEmbedding(body) ==
    [noteId |-> 1, updatedAt |-> 1, vector |-> "Alpha" \o "\n" \o body]

\* note 1 is open in the editor; it has been indexed before, or never
InitIndex ==
    /\ AgentIdle
    /\ GraphIdle
    /\ SearchIdle
    /\ ConnectIdle
    /\ IndexIdle
    /\ now = InitialClock
    /\ activeNoteId = 1
    /\ \E body \in EditorBodies \ {"short text"} :
          /\ notes = IndexNotes(body)
          /\ db_notes = Range(IndexNotes(body))
          /\ \/ db_embeddings = {OtherEmbedding}
             \/ body # "" /\ db_embeddings = {OtherEmbedding, OwnEmbedding(body)}

\* no event handler and no timer runs between the settling of the search and
\* the rest of autoLinkNote
TaskBoundary == linkPc # "filter"

NextIndex ==
    \/ \E field \in {"note-title", "note-body"} :
          \E value \in EditorTitles \cup EditorBodies :
             TaskBoundary /\ HandleInput(field, value)
    \/ \E byTimer \in BOOLEAN : SaveCurrentNote(byTimer)
    \/ SavePersisted
    \/ IndexCheck
    \/ EmbedReply
    \/ EmbedFail
    \/ \E score \in [{e.noteId : e \in db_embeddings} -> SearchScores] :
          LinkSearchReply(score)
    \/ AutoLinkApply
    \/ LinkSearchFail
    \/ TaskBoundary /\ Tick

SpecIndex == InitIndex /\ [][NextIndex]_vars

\* the save path with a second writer: the editor text is left alone while
\* saves run and the update_note tool writes the persisted notes
NextWriters ==
    \/ \E byTimer \in BOOLEAN : SaveCurrentNote(byTimer)
    \/ SavePersisted
    \/ IndexCheck
    \/ EmbedReply
    \/ EmbedFail
    \/ \E score \in [{e.noteId : e \in db_embeddings} -> SearchScores] :
          LinkSearchReply(score)
    \/ AutoLinkApply
    \/ LinkSearchFail
    \/ \E id \in {1, 2} : \E content \in ToolContents :
          \E mode \in {"overwrite", "append"} :
             TaskBoundary /\ UpdateNoteTool(id, content, mode)
    \/ TaskBoundary /\ TriggerAIConnect
    \/ TaskBoundary /\ DeleteCurrentNote
    \/ \E relatedIds \in AIRelated : TaskBoundary /\ AIConnectReply(relatedIds)
    \/ TaskBoundary /\ Tick

\* a debounce timer is pending in some initial states
InitWriters ==
    /\ AgentIdle
    /\ GraphIdle
    /\ SearchIdle
    /\ ConnectIdle
    /\ savePc = "idle" /\ saveNoteId = 0 /\ indexPc = "idle" /\ linkPc = "idle"
    /\ embedText = "" /\ indexOutcome = "none"
    /\ saveTimeout \in BOOLEAN
    /\ now = InitialClock
    /\ activeNoteId = 1
    /\ \E body \in EditorBodies \ {"short text"} :
          /\ notes = IndexNotes(body)
          /\ db_notes = Range(IndexNotes(body))
          /\ \/ db_embeddings = {OtherEmbedding}
             \/ body # "" /\ db_embeddings = {OtherEmbedding, OwnEmbedding(body)}

SpecWriters == InitWriters /\ [][NextWriters]_vars

\* every step of the program and of the services it waits for is taken in
\* the end; a direct save and a tool call happen only if somebody asks
FairSpecWriters ==
    /\ SpecWriters
    /\ WF_vars(SaveCurrentNote(TRUE))
    /\ WF_vars(SavePersisted)
    /\ WF_vars(IndexCheck)
    /\ WF_vars(EmbedReply)
    /\ WF_vars(\E score \in [{e.noteId : e \in db_embeddings} -> SearchScores] :
                  LinkSearchReply(score))
    /\ WF_vars(AutoLinkApply)
    /\ WF_vars(\E relatedIds \in AIRelated : TaskBoundary /\ AIConnectReply(relatedIds))

----------------------------------------------------------------------------
(* Properties of the save path, checked under SpecIndex *)

\* the stored record of the note counts as fresh
CountsAsFresh(note) ==
    \E e \in db_embeddings : e.noteId = note.id /\ e.updatedAt >= note.updatedAt

\* the vector of the stored record was generated from the text of the note
VectorIsCurrent(note) ==
    \A e \in db_embeddings : e.noteId = note.id => e.vector = note.title \o "\n" \o note.body

\* the step in which indexNote, suspended on db.embeddings.get, goes on
IndexCheckStep == indexPc = "get" /\ indexPc' # "get"

\* the step in which indexNote, suspended on generateEmbedding, sees it fail
EmbedFailStep == indexPc = "embed" /\ indexPc' # "embed" /\ indexOutcome' = "failed"

\* the step in which indexNote is called with a note whose body is empty
EmptyBodyStep ==
    savePc = "persist" /\ savePc' # "persist" /\ CacheNote(saveNoteId).body = ""

\* C7: whenever the stored embedding record of a note counts as fresh (record
\* timestamp >= modification timestamp of the note), its vector was generated
\* from the current title and body of the note, also when the note is edited
\* while indexNote waits for the embedding service.
C7_FreshRecordIsCurrent ==
    \A i \in 1..Len(notes) : CountsAsFresh(notes[i]) => VectorIsCurrent(notes[i])

\* C8: indexNote is a no-op when the stored record of the note is fresh: it
\* returns without a call to the embedding service and without a write to the
\* embedding store.
C8_FreshIsNoOp ==
    [][(IndexCheckStep /\ CountsAsFresh(CacheNote(saveNoteId)))
          => /\ indexPc' = "idle"
             /\ embedText' = embedText
             /\ db_embeddings' = db_embeddings]_vars

\* indexNote has returned on a fresh record, after an earlier run wrote it
C8_Witness ==
    /\ indexOutcome = "fresh"
    /\ indexPc = "idle"
    /\ \E e \in db_embeddings : e.noteId = 1 /\ e.updatedAt >= InitialClock

\* C9: indexNote fails silently: when the body of the note is empty or the
\* embedding call fails, it returns normally (saveCurrentNote goes on to
\* autoLinkNote) and the embedding store is unchanged, so that an earlier
\* record of the note stays as it was.
C9_FailsSilently ==
    [][((savePc = "persist" /\ EmptyBodyStep) \/ EmbedFailStep)
          => /\ db_embeddings' = db_embeddings
             /\ indexPc' = "idle"
             /\ savePc' \in {"link", "idle"}]_vars

\* the embedding call failed for an edited note that had a record: the record
\* of the earlier text is still there
C9_Witness ==
    /\ indexOutcome = "failed"
    /\ indexPc = "idle"
    /\ \E b \in EditorBodies :
          /\ OwnEmbedding(b) \in db_embeddings
          /\ notes[CachePos(1)].body # b

\* C10: a save completes without waiting for the embedding service: while
\* the embedding call of indexNote or the search of autoLinkNote is
\* outstanding, saveCurrentNote has already returned.
C10_SaveDoesNotWaitForEmbedding ==
    (indexPc = "embed" \/ linkPc = "search") => savePc = "idle"

\* the persisted copy of the note being saved was written by another writer
\* after the note object that autoLinkNote holds was last modified
OtherWriterWrote ==
    /\ HasNote(db_notes, saveNoteId)
    /\ NoteDAO_get(db_notes, saveNoteId).updatedAt > CacheNote(saveNoteId).updatedAt

\* the step in which autoLinkNote goes on with the results of the search
AutoLinkStep == linkPc = "filter" /\ linkPc' = "idle"

\* C11: autoLink's write changes only the AI-link list of the latest
\* persisted copy: a body or tag change persisted by another writer while
\* autoLink waits for the similarity search is still there after its save.
C11_AutoLinkKeepsOtherWrites ==
    [][(AutoLinkStep /\ OtherWriterWrote)
          => /\ HasNote(db_notes', saveNoteId)
             /\ NoteDAO_get(db_notes', saveNoteId).body
                    = NoteDAO_get(db_notes, saveNoteId).body
             /\ NoteDAO_get(db_notes', saveNoteId).tags
                    = NoteDAO_get(db_notes, saveNoteId).tags]_vars

----------------------------------------------------------------------------
(* Properties of context assembly, checked under Spec *)

\* the step in which sendMessage, suspended on VectorStore.search, goes on
SearchSettles == pc = "rag" /\ pc' # "rag"

\* C12: when the embedding call fails during context assembly, the failure
\* is caught and the turn goes on: however the semantic search settles, the
\* next thing the turn does is call the model, and no error is shown.
C12_SearchFailureDoesNotAbort ==
    [][SearchSettles => (pc' = "chat" /\ chatCalls' = 1 /\ uiMessage' # ERROR_PREFIX)]_vars

\* the step of sendMessage from the call to its first await after context
\* resolution: the semantic search or the first model call
ContextResolved == pc = "idle" /\ pc' # "idle"

\* C13: the semantic search is performed exactly when neither the active
\* note rule nor the mention rule produced a note: never when one of them
\* contributed a note, always when both contributed none (also when an active
\* note id is set but the note is not in the note list).
C13_SearchExactlyWhenNoNotes ==
    [][ContextResolved => ((pc' = "rag") <=> (usedNotes' = <<>>))]_vars

\* the query of the turn in progress
TurnQuery == TurnUserMessage.content

\* sendMessage is between context resolution and its return
TurnInProgress == pc \in {"chat", "tool", "save", "done", "error"}

\* the note of the in-memory list with the given id
NoteOfId(id) == CHOOSE n \in Range(notes) : n.id = id

\* the active note is set and is in the note list
ActiveNoteFound == activeNoteId # 0 /\ \E n \in Range(notes) : n.id = activeNoteId

\* the notes other than the active one whose "@title" occurs in the query
MentionedIds(message) ==
    {n.id : n \in {m \in Range(notes) :
                      Includes(message, "@" \o m.title) /\ m.id # activeNoteId}}

\* C14: the notes used for context are in priority order: the active note
\* (if it is found) first, shown as currently viewed, then the mentioned
\* notes, longest title first; the active note is not among the mentions and
\* no note occurs twice.
C14_ContextPriorityOrder ==
    (TurnInProgress /\ (ActiveNoteFound \/ MentionedIds(TurnQuery) # {}))
    => LET mentions == IF ActiveNoteFound THEN Tail(usedNotes) ELSE usedNotes
       IN  /\ ActiveNoteFound =>
                 (usedNotes # <<>> /\ Head(usedNotes) = activeNoteId
                    /\ promptKind = "viewing")
           /\ Range(mentions) = MentionedIds(TurnQuery)
           /\ Len(mentions) = Cardinality(MentionedIds(TurnQuery))
           /\ \A i, j \in 1..Len(mentions) :
                 i < j => Len(NoteOfId(mentions[i]).title) >= Len(NoteOfId(mentions[j]).title)

\* the active note "Beta" is listed after "Beta Plan" in the note list and the
\* query "@Beta Plan status" contains "@Beta" too: the context is the active
\* note once, then the mentioned note
C14_Witness ==
    /\ pc = "chat"
    /\ activeNoteId = 1
    /\ TurnQuery = "@Beta Plan status"
    /\ usedNotes = <<1, 2>>
    /\ promptKind = "viewing"

\* the text t occurs in str at position i
OccursAt(str, t, i) == i + Len(t) - 1 <= Len(str) /\ SubSeq(str, i, i + Len(t) - 1) = t

\* a is a proper prefix of b
IsProperPrefix(a, b) == Len(a) < Len(b) /\ SubSeq(b, 1, Len(a)) = a

\* the query has an "@title" of the note that is not the beginning of the
\* "@title" of a note with a longer title
MentionedOnItsOwn(message, n) ==
    \E i \in 1..Len(message) :
        /\ OccursAt(message, "@" \o n.title, i)
        /\ ~ \E m \in Range(notes) :
                 IsProperPrefix(n.title, m.title) /\ OccursAt(message, "@" \o m.title, i)

\* C15: mention matching avoids partial-prefix collisions: a note whose title
\* is a proper prefix of a mentioned title ("Beta" when the query says
\* "@Beta Plan") is an explicit mention only if it is mentioned on its own.
C15_NoPrefixCollision ==
    (TurnInProgress /\ MentionedIds(TurnQuery) # {})
    => LET mentions == IF ActiveNoteFound THEN Tail(usedNotes) ELSE usedNotes
       IN  \A k \in 1..Len(mentions) : MentionedOnItsOwn(TurnQuery, NoteOfId(mentions[k]))

----------------------------------------------------------------------------
(* Properties of saves by other writers, checked under FairSpecWriters *)

\* the persisted copy of the note was saved by AITools.update_note after the
\* note object of the editor was last modified
ToolSaved(id) ==
    /\ HasNote(db_notes, id)
    /\ NoteDAO_get(db_notes, id).updatedAt > CacheNote(id).updatedAt

\* the stored record of the note is at least as recent as the persisted note
RecordRefreshed(id) ==
    \E e \in db_embeddings :
        e.noteId = id /\ e.updatedAt >= NoteDAO_get(db_notes, id).updatedAt

\* indexNote or autoLinkNote is running for the note
IndexingTriggered(id) == saveNoteId = id /\ savePc \in {"index", "link"}

\* C16: after every note save, also a save made by the update_note tool, the
\* embedding of the note is refreshed in the end, or at least indexNote and
\* autoLinkNote are started for the saved note (unless the note is deleted).
C16_EverySaveTriggersIndexing ==
    \A id \in {1, 2} :
        ToolSaved(id) ~> \/ ~HasNote(db_notes, id)
                         \/ RecordRefreshed(id)
                         \/ IndexingTriggered(id)

----------------------------------------------------------------------------
(* VectorStore.search on its own *)

\* the values of k: the default, and those of the callers
SearchKs == {1, RAG_K, AUTO_LINK_K}

\* VectorStore.search(query, k): the query vector the service returns has the
\* given similarity to each stored record
SearchCall(k, score) ==
    /\ searchK = 0
    /\ searchK' = k
    /\ searchScore' = score
    /\ searchResults' = Search(db_embeddings, score, k)
    /\ UNCHANGED <<agentVars, noteVars, graphVars, indexVars, connectVars>>

\* a store of up to MaxRecords records; no note is open
InitSearch ==
    /\ AgentIdle
    /\ GraphIdle
    /\ SearchIdle
    /\ ConnectIdle
    /\ IndexIdle
    /\ now = 1
    /\ activeNoteId = 0
    /\ notes = <<>>
    /\ db_notes = {}
    /\ \E ids \in SUBSET (1..MaxRecords) :
          db_embeddings = {[noteId |-> i, updatedAt |-> 1, vector |-> "v"] : i \in ids}

NextSearch ==
    \E k \in SearchKs :
       \E score \in [{e.noteId : e \in db_embeddings} -> SearchScores] : SearchCall(k, score)

SpecSearch == InitSearch /\ [][NextSearch]_vars

\* C17: search(query, k) returns the stored records ranked by similarity in
\* descending order, cut to the first k: min(k, number of records) entries,
\* each a distinct stored note id with its score, and no record left out
\* scores higher than a returned one.
C17_SearchRanksTopK ==
    searchK > 0 =>
       LET stored == {e.noteId : e \in db_embeddings}
           returned == {searchResults[i].noteId : i \in 1..Len(searchResults)}
       IN  /\ Len(searchResults) = IF Cardinality(stored) < searchK
                                   THEN Cardinality(stored) ELSE searchK
           /\ \A i \in 1..Len(searchResults) :
                 /\ searchResults[i].noteId \in stored
                 /\ searchResults[i].score = searchScore[searchResults[i].noteId]
           /\ \A i, j \in 1..Len(searchResults) :
                 i < j => /\ searchResults[i].noteId # searchResults[j].noteId
                          /\ searchResults[i].score >= searchResults[j].score
           /\ \A id \in stored \ returned : \A i \in 1..Len(searchResults) :
                 searchScore[id] <= searchResults[i].score

\* a search with k = 3 over four records with different scores: the best
\* record has the highest key and the record left out scores lowest
C17_Witness ==
    /\ searchK = RAG_K
    /\ Cardinality(db_embeddings) = 4
    /\ Len(searchResults) = 3
    /\ searchResults[1].noteId = 4
    /\ searchResults[1].score > searchResults[3].score
    /\ \E id \in 1..4 : searchScore[id] < searchResults[3].score

----------------------------------------------------------------------------
(* Properties of autoLinkNote, checked under SpecIndex *)

\* the step in which indexNote returns and saveCurrentNote calls autoLinkNote
AutoLinkCalled == savePc \in {"persist", "index"} /\ savePc' \in {"link", "idle"}

\* C18: autoLink on a note whose body has fewer than 20 characters is a
\* no-op: no similarity search is started, the note is not written and its
\* AI-link list stays as it is.
C18_ShortBodyNoAutoLink ==
    [][(AutoLinkCalled /\ Len(CacheNote(saveNoteId).body) < 20)
          => /\ linkPc' = "idle"
             /\ savePc' = "idle"
             /\ db_notes' = db_notes
             /\ notes' = notes
             /\ UNCHANGED searchVars]_vars

\* the note with the body "short text" (10 characters) was indexed and
\* autoLinkNote returned at once
C18_Witness ==
    /\ savePc = "idle"
    /\ indexOutcome = "indexed"
    /\ notes[CachePos(1)].body = "short text"
    /\ \E e \in db_embeddings : e.noteId = 1 /\ e.vector = "Alpha\nshort text"

\* the ids of the search results that are not the note itself and do not
\* score below 0.3
QualifyingIds ==
    {searchResults[i].noteId : i \in {j \in 1..Len(searchResults) :
        searchResults[j].noteId # saveNoteId /\ searchResults[j].score >= 30}}

\* C20: the ids autoLink adds to the AI-link list of a note are exactly the
\* ids of the similarity results that are not the note itself and whose
\* score is not below the threshold 0.3.
C20_AddsExactlyQualifying ==
    [][AutoLinkStep
          => Range(notes'[CachePos(saveNoteId)].aiLinks)
                = Range(CacheNote(saveNoteId).aiLinks) \cup QualifyingIds]_vars

----------------------------------------------------------------------------
(* Properties of the AI-link list, checked under SpecWriters *)

\* a list without duplicates and with at most 5 entries
CappedAndDistinct(links) ==
    /\ Len(links) <= 5
    /\ \A i, j \in 1..Len(links) : i # j => links[i] # links[j]

\* C19: in every reachable state, after any sequence of saves, auto-link
\* runs and AI-connect actions, the AI-link list of every note, in memory and
\* persisted, has no duplicate id and at most 5 entries.
C19_AiLinksCappedAndDistinct ==
    /\ \A i \in 1..Len(notes) : CappedAndDistinct(notes[i].aiLinks)
    /\ \A n \in db_notes : CappedAndDistinct(n.aiLinks)

----------------------------------------------------------------------------
(* Properties of the agent loop, checked under Spec *)

\* what the running turn has appended to db.chat_messages
TurnAdded == SubSeq(chat_messages, Len(turnStart) + 1, Len(chat_messages))

\* the contents of the two turns the loop pushes for a tool call
ToolTurnContents == {"call", "Tool Result"}

\* C21: the model output of a tool call and the tool result go to the working
\* message list of the turn only: the persisted conversation and the
\* in-memory history gain exactly the user message and, on success, one final
\* assistant message, never a tool-call or tool-result turn.
C21_ToolTurnsNotPersisted ==
    pc # "idle" =>
       /\ SubSeq(chat_messages, 1, Len(turnStart)) = turnStart
       /\ Len(TurnAdded) \in {1, 2}
       /\ TurnAdded[1].role = "user"
       /\ Len(TurnAdded) = 2 =>
             /\ TurnAdded[2].role = "assistant"
             /\ pc \in {"done", "returned"}
       /\ pc = "done" => Len(TurnAdded) = 2
       /\ \A i \in 1..Len(chat_messages) : chat_messages[i].content \notin ToolTurnContents
       /\ \A i \in 1..Len(history) : history[i].content \notin ToolTurnContents
       /\ Len(history) - Len(TurnAdded) \in {0, Len(PriorHistory)}
       /\ \A i \in 1..Len(TurnAdded) :
             LET h == history[Len(history) - Len(TurnAdded) + i]
             IN  h.role = TurnAdded[i].role /\ h.content = TurnAdded[i].content

\* a turn with two executed tool calls ended with its final answer saved
C21_Witness ==
    /\ pc = "done"
    /\ turn = 2
    /\ Len(messages) >= 6
    /\ Len(TurnAdded) = 2

\* a tool has created or updated a note since the start of the behaviour
ToolChangedNotes == db_notes # Range(InitialNotes)

\* C22: no agent turn leaves a tool side effect without its result being
\* recorded: when a tool has created or updated a note and the turn then ends
\* in an error, the conversation record holds more than the user message of
\* the turn, namely the outcome of the tool call.
C22_ToolEffectRecorded ==
    (pc = "error" /\ ToolChangedNotes) => Len(TurnAdded) > 1

\* the step in which AITools.create_note ran and saved its note
CreateStep ==
    /\ pc = "tool"
    /\ lastExec'.ran # <<>>
    /\ lastExec'.ran[Len(lastExec'.ran)] = "create_note"
    /\ lastExec'.text = TOOL_RESULT

\* C23: note identifiers are unique: a create assigns an id that no existing
\* note has, so it adds a note and overwrites none, also when two creates
\* happen at the same clock value.
C23_CreateAssignsFreshId ==
    [][CreateStep => /\ ~HasNote(db_notes, now)
                     /\ Cardinality(db_notes') = Cardinality(db_notes) + 1]_vars

----------------------------------------------------------------------------
(* Properties of the embedding store, checked under SpecWriters *)

\* C24: an embedding record is deleted when its owning note is deleted: in
\* every reachable state each stored record belongs to a note that exists, so
\* that search never returns the id of a deleted note.
C24_NoOrphanEmbedding ==
    \A e \in db_embeddings : HasNote(db_notes, e.noteId)

----------------------------------------------------------------------------
(* Properties of the end of the agent loop, checked under Spec *)

\* the reply the loop received last, once the loop is over
LoopEndedByReply == pc \in {"save", "done"} /\ lastReply # <<>>

\* C25: the fixed "stuck in a loop" message is the final answer only when the
\* turn cap was hit, that is after 5 tool calls were executed without the
\* model producing plain text; in every other completed turn the final answer
\* is the model's own text.
C25_StuckOnlyAtCap ==
    /\ (pc \in {"save", "done"} /\ finalResponse = STUCK_MESSAGE)
           => (turn = MAX_TURNS /\ lastReply = <<>>)
    /\ LoopEndedByReply => finalResponse = lastReply[1].raw

\* a response that is not a well-formed tool call: no brace-delimited text,
\* text between braces that JSON.parse rejects, or an object without a truthy
\* tool or arguments member
Malformed(r) == ~r.braces \/ ~r.parses \/ r.tool = "" \/ r.arguments = ""

\* C26: a response that is not a well-formed tool call ends the loop with
\* that response as the final answer: no tool is executed for it and no error
\* is raised.
C26_MalformedReplyIsFinal ==
    (lastReply # <<>> /\ Malformed(lastReply[1])) =>
        /\ pc \in {"save", "done"}
        /\ toolCall = NoCall \/ turn > 0
        /\ lastExec = NoExec
        /\ finalResponse = lastReply[1].raw

\* the step in which the loop body executed a tool call
ToolExecutedStep == pc = "tool" /\ pc' # "tool" /\ ~lastExec'.thrown

\* after the step a chat call is outstanding whose message list ends with the
\* tool call and its result
ResultFedBack ==
    /\ pc' = "chat"
    /\ chatCalls' = chatCalls + 1
    /\ Len(messages') = Len(messages) + 2
    /\ messages'[Len(messages')] = [role |-> "user", content |-> "Tool Result"]

\* C27: every tool call that the agent loop executes has its result fed back
\* to the model: the execution is followed by a model call in the same turn
\* whose message list contains the result, also for the tool call made in the
\* last permitted iteration.
C27_EveryResultFedBack == [][ToolExecutedStep => ResultFedBack]_vars

\* C27 (amended): the result of each of the first four tool calls of a turn is
\* fed back to the model; the result of the fifth is appended to the working
\* list but no model call follows: the turn ends with the fallback message.
C27_ResultFedBackBelowCap ==
    [][ToolExecutedStep =>
          IF turn < 4
          THEN ResultFedBack
          ELSE /\ pc' = "save"
               /\ chatCalls' = chatCalls
               /\ finalResponse' = STUCK_MESSAGE
               /\ messages'[Len(messages')].content = "Tool Result"]_vars

\* the fourth tool result has been fed back: the fifth chat call is waiting
C27_Witness ==
    /\ pc = "chat" /\ turn = 4 /\ chatCalls = 5
    /\ messages[Len(messages)].content = "Tool Result"

----------------------------------------------------------------------------
(* Properties of the auto-link cap, checked under SpecWriters *)

\* C28: the auto-link cap truncates in insertion order after the merge:
\* existing entries are kept ahead of new ones, so once the AI-link list of a
\* note holds 5 entries, an autoLink run never changes the list, however
\* similar the notes it finds are.
C28_FullListNeverChanges ==
    [][(AutoLinkStep /\ Len(CacheNote(saveNoteId).aiLinks) = AUTO_LINK_MAX)
          => notes'[CachePos(saveNoteId)].aiLinks
                = CacheNote(saveNoteId).aiLinks]_vars

----------------------------------------------------------------------------
(* The conversation operations of the chat pane, which the user may invoke
   while an agent turn waits for the inference service.  Specification of one
   agent turn interleaved with them. *)

\* ChatMessageDAO.getByConversationId
getByConversationId(msgs, id) == SelectSeq(msgs, LAMBDA m : m.conversationId = id)

\* messages.map(m => ({ role: m.role, content: m.content }))
ToHistory(msgs) ==
    [i \in 1..Len(msgs) |-> [role |-> msgs[i].role, content |-> msgs[i].content]]

\* crypto.randomUUID(): an id that no conversation known to the chat pane has
FreshConversationId ==
    LET used == conversations \cup {activeConversationId, turnConversationId}
                   \cup {chat_messages[i].conversationId : i \in 1..Len(chat_messages)}
    IN  (CHOOSE m \in used : \A u \in used : u <= m) + 1

\* createNewConversation ("New Chat" button)
CreateNewConversation ==
    /\ FreshConversationId <= MaxConversations
    /\ activeConversationId' = FreshConversationId
    /\ conversations' = conversations \cup {FreshConversationId}
    /\ history' = <<>>
    /\ UNCHANGED <<pc, chat_messages, messages, usedNotes, promptKind, turn,
                   toolCall, finalResponse, uiMessage, chatCalls, lastExec,
                   lastReply, turnConversationId, turnStart>>
    /\ UNCHANGED <<noteVars, graphVars, indexVars, searchVars, connectVars>>

\* loadConversation(id) (a click in the conversation list)
LoadConversation(id) ==
    /\ id \in conversations
    /\ activeConversationId' = id
    /\ history' = ToHistory(getByConversationId(chat_messages, id))
    /\ UNCHANGED <<pc, conversations, chat_messages, messages, usedNotes,
                   promptKind, turn, toolCall, finalResponse, uiMessage,
                   chatCalls, lastExec, lastReply, turnConversationId, turnStart>>
    /\ UNCHANGED <<noteVars, graphVars, indexVars, searchVars, connectVars>>

\* deleteCurrentConversation, confirmed by the user: the conversation and its
\* messages are deleted, then another conversation is loaded or, when none is
\* left, a new one is created
DeleteCurrentConversation ==
    /\ activeConversationId # 0
    /\ LET rest == conversations \ {activeConversationId}
           kept == SelectSeq(chat_messages,
                             LAMBDA m : m.conversationId # activeConversationId)
       IN  /\ chat_messages' = kept
           /\ IF rest # {}
              THEN \E id \in rest :
                      /\ activeConversationId' = id
                      /\ conversations' = rest
                      /\ history' = ToHistory(getByConversationId(kept, id))
              ELSE /\ FreshConversationId <= MaxConversations
                   /\ activeConversationId' = FreshConversationId
                   /\ conversations' = {FreshConversationId}
                   /\ history' = <<>>
    /\ UNCHANGED <<pc, messages, usedNotes, promptKind, turn, toolCall,
                   finalResponse, uiMessage, chatCalls, lastExec, lastReply,
                   turnConversationId, turnStart>>
    /\ UNCHANGED <<noteVars, graphVars, indexVars, searchVars, connectVars>>

\* the responses of the inference service in this specification: a plain
\* answer or a call of read_note
ConvReplies ==
    {r \in Replies : r.raw = "The answer." \/ (r.raw = "call" /\ r.tool = "read_note")}

\* a click is handled between tasks: the message object of the assistant
\* reply, with its conversationId, is built in the task in which the last chat
\* call resolved, before the save is awaited
UserTaskBoundary == pc # "save"

NextConv ==
    \/ \E message \in UserMessages : SendMessage(message)
    \/ RagResult
    \/ RagFail
    \/ \E responseText \in ConvReplies : ChatReply(responseText)
    \/ ChatFail
    \/ \E raises \in BOOLEAN, id \in NoteIds, content \in ToolContents,
          mode \in {"append", "overwrite"} : ExecuteTool(raises, id, content, mode)
    \/ SaveAssistant
    \/ Return
    \/ UserTaskBoundary /\ CreateNewConversation
    \/ \E id \in conversations : UserTaskBoundary /\ LoadConversation(id)
    \/ UserTaskBoundary /\ DeleteCurrentConversation

SpecConv == Init /\ [][NextConv]_vars

\* the step that saves the assistant message of the turn
SaveAssistantStep == pc = "save" /\ pc' = "done"

\* C29: the assistant reply of an agent turn is persisted to the conversation
\* that the user message of the turn was persisted to, also when the user
\* loads, creates or deletes a conversation while the turn waits for the
\* model.
C29_ReplySavedToTurnConversation ==
    [][SaveAssistantStep
          => chat_messages'[Len(chat_messages')].conversationId
                = turnConversationId]_vars

----------------------------------------------------------------------------
(* Properties of the graph edges, checked under SpecGraph *)

\* the ids of the notes renderGraph read
GraphNoteIds == {n.id : n \in db_notes}

\* C30: every edge that the graph construction produces connects two
\* distinct notes of the input note set: both endpoints are ids of existing
\* notes (AI links to missing notes and wiki links to unknown titles are
\* dropped) and no edge joins a note to itself.
C30_EdgesJoinDistinctNotes ==
    graphState = "rendered" =>
        \A i \in 1..Len(graphEdges) :
            /\ graphEdges[i].from \in GraphNoteIds
            /\ graphEdges[i].to \in GraphNoteIds
            /\ graphEdges[i].from # graphEdges[i].to

====
